---------------------------- MODULE Spec2Model ----------------------------
(***************************************************************************)
(* A model of package corpus (src/corpus.go): the 2D vector type Vector    *)
(* and the physical disk Corpus with its operations ApplyForce, Update,    *)
(* Bounce, Collide, Gravitate and Coulomb.                                 *)
(*                                                                         *)
(* Arithmetic is exact.  A float64 of the program is modelled by a         *)
(* rational number <<n, d>> in lowest terms with d > 0.  math.Sqrt is       *)
(* modelled on the squares of rationals only; an operation that would take *)
(* the root of another number, or divide by zero, lies outside the model   *)
(* and its action is not enabled there (see the Exact predicates).         *)
(***************************************************************************)
EXTENDS Integers, Sequences, FiniteSets, TLC

VARIABLES world, hist

vars == <<world, hist>>

---------------------------------------------------------------------------
(* Bounds of the model. *)

\* Calls explored from an initial world (collision, force and bounce passes).
MaxSteps == 2

\* Calls explored in the integration pass (ApplyForce and Update only).
MaxTicks == 3

\* Calls explored when all six operations are mixed.
MaxOps == 1

---------------------------------------------------------------------------
(* Exact rational arithmetic standing for float64. *)

Abs(n) == IF n < 0 THEN -n ELSE n

RECURSIVE GCD(_, _)
GCD(a, b) == IF b = 0 THEN a ELSE GCD(b, a % b)

\* The rational n/d (d # 0) in lowest terms with a positive denominator.
Q(n, d) ==
    LET g == GCD(Abs(n), Abs(d))
        s == IF d < 0 THEN -1 ELSE 1
    IN  <<(s * n) \div g, (s * d) \div g>>

R(n) == <<n, 1>>

Zero == R(0)

RAdd(a, b) == Q(a[1] * b[2] + b[1] * a[2], a[2] * b[2])
RSub(a, b) == Q(a[1] * b[2] - b[1] * a[2], a[2] * b[2])
RMul(a, b) == Q(a[1] * b[1], a[2] * b[2])
RDiv(a, b) == Q(a[1] * b[2], a[2] * b[1])
RNeg(a) == <<-a[1], a[2]>>
RLt(a, b) == a[1] * b[2] < b[1] * a[2]
RLeq(a, b) == a[1] * b[2] <= b[1] * a[2]
RGt(a, b) == RLt(b, a)
RGeq(a, b) == RLeq(b, a)

\* The integer root of n by bisection: the largest r with r*r <= n.
RECURSIVE ISqrtIn(_, _, _)
ISqrtIn(n, lo, hi) ==
    IF lo >= hi THEN lo
    ELSE LET mid == (lo + hi + 1) \div 2
         IN  IF mid * mid <= n THEN ISqrtIn(n, mid, hi)
             ELSE ISqrtIn(n, lo, mid - 1)

ISqrt(n) == ISqrtIn(n, 0, IF n < 46340 THEN n ELSE 46340)

IsSquare(n) == n >= 0 /\ ISqrt(n) * ISqrt(n) = n

\* Whether math.Sqrt(a) is a rational number.
HasRoot(a) == IsSquare(a[1]) /\ IsSquare(a[2])

\* math.Sqrt on the squares of rationals.
RSqrt(a) == <<ISqrt(a[1]), ISqrt(a[2])>>

---------------------------------------------------------------------------
(* type Vector struct { X, Y float64 } and its methods. *)

Vec(x, y) == [X |-> x, Y |-> y]

V(x, y) == Vec(R(x), R(y))

Add(a, b) == Vec(RAdd(a.X, b.X), RAdd(a.Y, b.Y))

AddP(a, b) == Vec(RAdd(a.X, b.X), RAdd(a.Y, b.Y))

Sub(a, b) == Vec(RSub(a.X, b.X), RSub(a.Y, b.Y))

Mult(a, b) == Vec(RMul(a.X, b), RMul(a.Y, b))

MultP(a, b) == Vec(RMul(a.X, b), RMul(a.Y, b))

Div(a, b) == Vec(RDiv(a.X, b), RDiv(a.Y, b))

Dot(a, b) == RAdd(RMul(a.X, b.X), RMul(a.Y, b.Y))

MagSq(a) == RAdd(RMul(a.X, a.X), RMul(a.Y, a.Y))

Mag(a) == RSqrt(RAdd(RMul(a.X, a.X), RMul(a.Y, a.Y)))

Dist(a, b) == Mag(Sub(a, b))

DistSq(a, b) == MagSq(Sub(a, b))

Norm(a) == Div(a, Mag(a))

SetMag(a, mag) == Mult(Norm(a), mag)

---------------------------------------------------------------------------
(* type Corpus struct and its methods.  A corpus is a record; a method     *)
(* with a pointer receiver is an operator that returns the corpus (or the  *)
(* world) as the call leaves it.                                           *)

MakeCorpus(posX, posY, velX, velY, mass, charge, rad) ==
    [Pos |-> Vec(posX, posY), Vel |-> Vec(velX, velY), Acc |-> Vec(Zero, Zero),
     Mass |-> mass, Charge |-> charge, Radius |-> rad, Immaterial |-> FALSE]

\* IsInter with < in place of <=: touching disks do not intersect.
IsInterStrict(c, cp) == RLt(Dist(c.Pos, cp.Pos), RAdd(c.Radius, cp.Radius))

IsInter(c, cp) == RLeq(Dist(c.Pos, cp.Pos), RAdd(c.Radius, cp.Radius))

ApplyForce(c, f) == [c EXCEPT !.Acc = AddP(c.Acc, Div(f, c.Mass))]

\* Update with the two integration lines swapped: Pos advances by the old
\* velocity (explicit Euler).
UpdateOldVel(c) ==
    IF ~c.Immaterial
    THEN LET pos == AddP(c.Pos, c.Vel)
             vel == AddP(c.Vel, c.Acc)
         IN  [c EXCEPT !.Vel = vel, !.Pos = pos, !.Acc = MultP(c.Acc, Zero)]
    ELSE c

Update(c) ==
    IF ~c.Immaterial
    THEN LET vel == AddP(c.Vel, c.Acc)
             pos == AddP(c.Pos, vel)
         IN  [c EXCEPT !.Vel = vel, !.Pos = pos, !.Acc = MultP(c.Acc, Zero)]
    ELSE c

\* Bounce with the second test of each axis under an else: a component is
\* negated at most once.
BounceElseIf(c, width, height) ==
    LET posX == c.Pos.X
        posY == c.Pos.Y
        rad  == c.Radius
        c1 == IF RGt(posX, RSub(width, rad))
              THEN [c EXCEPT !.Pos.X = RSub(width, rad), !.Vel.X = RNeg(c.Vel.X)]
              ELSE IF RLt(posX, rad)
                   THEN [c EXCEPT !.Pos.X = rad, !.Vel.X = RNeg(c.Vel.X)]
                   ELSE c
        c2 == IF RGt(posY, RSub(height, rad))
              THEN [c1 EXCEPT !.Pos.Y = RSub(height, rad), !.Vel.Y = RNeg(c1.Vel.Y)]
              ELSE IF RLt(posY, rad)
                   THEN [c1 EXCEPT !.Pos.Y = rad, !.Vel.Y = RNeg(c1.Vel.Y)]
                   ELSE c1
    IN  c2

\* Bounce with the radius forgotten at the far walls: the position is set
\* to width and to height.
BounceNoRadius(c, width, height) ==
    LET posX == c.Pos.X
        posY == c.Pos.Y
        rad  == c.Radius
        c1 == IF RGt(posX, RSub(width, rad))
              THEN [c EXCEPT !.Pos.X = width, !.Vel.X = RNeg(c.Vel.X)]
              ELSE c
        c2 == IF RLt(posX, rad)
              THEN [c1 EXCEPT !.Pos.X = rad, !.Vel.X = RNeg(c1.Vel.X)]
              ELSE c1
        c3 == IF RGt(posY, RSub(height, rad))
              THEN [c2 EXCEPT !.Pos.Y = height, !.Vel.Y = RNeg(c2.Vel.Y)]
              ELSE c2
        c4 == IF RLt(posY, rad)
              THEN [c3 EXCEPT !.Pos.Y = rad, !.Vel.Y = RNeg(c3.Vel.Y)]
              ELSE c3
    IN  c4

\* The four tests read posX, posY and rad as they were on entry; each
\* assignment works on the corpus as the tests before it left it.
Bounce(c, width, height) ==
    LET posX == c.Pos.X
        posY == c.Pos.Y
        rad  == c.Radius
        c1 == IF RGt(posX, RSub(width, rad))
              THEN [c EXCEPT !.Pos.X = RSub(width, rad), !.Vel.X = RNeg(c.Vel.X)]
              ELSE c
        c2 == IF RLt(posX, rad)
              THEN [c1 EXCEPT !.Pos.X = rad, !.Vel.X = RNeg(c1.Vel.X)]
              ELSE c1
        c3 == IF RGt(posY, RSub(height, rad))
              THEN [c2 EXCEPT !.Pos.Y = RSub(height, rad), !.Vel.Y = RNeg(c2.Vel.Y)]
              ELSE c2
        c4 == IF RLt(posY, rad)
              THEN [c3 EXCEPT !.Pos.Y = rad, !.Vel.Y = RNeg(c3.Vel.Y)]
              ELSE c3
    IN  c4

\* Depenetrate without the division by 2: each body moved by the whole overlap.
DepenetrateFull(c, cp) ==
    LET dist == Dist(c.Pos, cp.Pos)
        displace == SetMag(Sub(c.Pos, cp.Pos),
                           RSub(RAdd(c.Radius, cp.Radius), dist))
    IN  <<[c EXCEPT !.Pos = AddP(c.Pos, displace)],
          [cp EXCEPT !.Pos = AddP(cp.Pos, Mult(displace, R(-1)))]>>

\* Collide, "Intersection": the two bodies pushed apart, each by half the
\* overlap, along the line of centres.  <<c, cp>> as the three lines leave them.
Depenetrate(c, cp) ==
    LET dist == Dist(c.Pos, cp.Pos)
        displace == SetMag(Sub(c.Pos, cp.Pos),
                           RDiv(RSub(RAdd(c.Radius, cp.Radius), dist), R(2)))
    IN  <<[c EXCEPT !.Pos = AddP(c.Pos, displace)],
          [cp EXCEPT !.Pos = AddP(cp.Pos, Mult(displace, R(-1)))]>>

\* Respond with c.Vel assigned before cp.Vel is computed: the formula for cp
\* reads the new velocity of c.
RespondSequential(c, cp) ==
    LET c1 == [c EXCEPT !.Vel =
                  Sub(c.Vel,
                      Mult(Sub(c.Pos, cp.Pos),
                           RDiv(RMul(RDiv(RMul(R(2), cp.Mass), RAdd(c.Mass, cp.Mass)),
                                     Dot(Sub(c.Vel, cp.Vel), Sub(c.Pos, cp.Pos))),
                                DistSq(c.Pos, cp.Pos))))]
        cp1 == [cp EXCEPT !.Vel =
                   Sub(cp.Vel,
                       Mult(Sub(cp.Pos, c1.Pos),
                            RDiv(RMul(RDiv(RMul(R(2), c1.Mass), RAdd(c1.Mass, cp.Mass)),
                                      Dot(Sub(cp.Vel, c1.Vel), Sub(cp.Pos, c1.Pos))),
                                 DistSq(c1.Pos, cp.Pos))))]
    IN  <<c1, cp1>>

\* Respond with the factor of cp's formula copied from c's: 2*cp.Mass in
\* place of 2*c.Mass.
RespondSameMass(c, cp) ==
    LET cVelP == Sub(c.Vel,
                     Mult(Sub(c.Pos, cp.Pos),
                          RDiv(RMul(RDiv(RMul(R(2), cp.Mass), RAdd(c.Mass, cp.Mass)),
                                    Dot(Sub(c.Vel, cp.Vel), Sub(c.Pos, cp.Pos))),
                               DistSq(c.Pos, cp.Pos))))
        cp1 == [cp EXCEPT !.Vel =
                   Sub(cp.Vel,
                       Mult(Sub(cp.Pos, c.Pos),
                            RDiv(RMul(RDiv(RMul(R(2), cp.Mass), RAdd(c.Mass, cp.Mass)),
                                      Dot(Sub(cp.Vel, c.Vel), Sub(cp.Pos, c.Pos))),
                                 DistSq(c.Pos, cp.Pos))))]
    IN  <<[c EXCEPT !.Vel = cVelP], cp1>>

\* Collide, "Momentum": cVelP is computed, cp.Vel is assigned while c.Vel is
\* still the old velocity, then c.Vel is assigned.
Respond(c, cp) ==
    LET cVelP == Sub(c.Vel,
                     Mult(Sub(c.Pos, cp.Pos),
                          RDiv(RMul(RDiv(RMul(R(2), cp.Mass), RAdd(c.Mass, cp.Mass)),
                                    Dot(Sub(c.Vel, cp.Vel), Sub(c.Pos, cp.Pos))),
                               DistSq(c.Pos, cp.Pos))))
        cp1 == [cp EXCEPT !.Vel =
                   Sub(cp.Vel,
                       Mult(Sub(cp.Pos, c.Pos),
                            RDiv(RMul(RDiv(RMul(R(2), c.Mass), RAdd(c.Mass, cp.Mass)),
                                      Dot(Sub(cp.Vel, c.Vel), Sub(cp.Pos, c.Pos))),
                                 DistSq(c.Pos, cp.Pos))))]
    IN  <<[c EXCEPT !.Vel = cVelP], cp1>>

\* CollidePair with only the focal body's flag tested.
CollidePairFocalOnly(w, i, j) ==
    LET c == w[i]
        cp == w[j]
    IN  IF ~c.Immaterial
        THEN IF IsInter(c, cp)
             THEN LET moved == Depenetrate(c, cp)
                      after == Respond(moved[1], moved[2])
                  IN  [w EXCEPT ![i] = after[1], ![j] = after[2]]
             ELSE w
        ELSE w

\* One iteration of Collide's loop: c is w[i], cp is w[j].
CollidePair(w, i, j) ==
    LET c == w[i]
        cp == w[j]
    IN  IF ~c.Immaterial /\ ~cp.Immaterial
        THEN IF IsInter(c, cp)
             THEN LET moved == Depenetrate(c, cp)
                      after == Respond(moved[1], moved[2])
                  IN  [w EXCEPT ![i] = after[1], ![j] = after[2]]
             ELSE w
        ELSE w

RECURSIVE Collide(_, _, _)
Collide(w, i, corpi) ==
    IF corpi = <<>> THEN w
    ELSE Collide(CollidePair(w, i, Head(corpi)), i, Tail(corpi))

\* GravitatePair with the same force applied to both bodies: the
\* Mult(-1) of the second ApplyForce is missing.
GravitatePairSameSign(w, i, j, G) ==
    LET c == w[i]
        cp == w[j]
    IN  IF ~c.Immaterial /\ ~cp.Immaterial
        THEN LET dist == Dist(c.Pos, cp.Pos)
             IN  IF RGeq(RAdd(dist, R(2)), RAdd(c.Radius, cp.Radius))
                 THEN LET force == Div(Mult(Sub(cp.Pos, c.Pos),
                                            RDiv(RMul(RMul(G, c.Mass), cp.Mass), RMul(dist, dist))),
                                       dist)
                      IN  [w EXCEPT ![i] = ApplyForce(c, force),
                                    ![j] = ApplyForce(cp, force)]
                 ELSE w
        ELSE w

\* One iteration of Gravitate's loop.
GravitatePair(w, i, j, G) ==
    LET c == w[i]
        cp == w[j]
    IN  IF ~c.Immaterial /\ ~cp.Immaterial
        THEN LET dist == Dist(c.Pos, cp.Pos)
             IN  IF RGeq(RAdd(dist, R(2)), RAdd(c.Radius, cp.Radius))
                 THEN LET force == Div(Mult(Sub(cp.Pos, c.Pos),
                                            RDiv(RMul(RMul(G, c.Mass), cp.Mass), RMul(dist, dist))),
                                       dist)
                      IN  [w EXCEPT ![i] = ApplyForce(c, force),
                                    ![j] = ApplyForce(cp, Mult(force, R(-1)))]
                 ELSE w
        ELSE w

RECURSIVE Gravitate(_, _, _, _)
Gravitate(w, i, corpi, G) ==
    IF corpi = <<>> THEN w
    ELSE Gravitate(GravitatePair(w, i, Head(corpi), G), i, Tail(corpi), G)

\* One iteration of Coulomb's loop.  The factor in front of the charges is
\* the literal 1 of the source; the parameter k is not read.
CoulombPair(w, i, j, k) ==
    LET c == w[i]
        cp == w[j]
    IN  IF ~c.Immaterial /\ ~cp.Immaterial
        THEN LET dist == Dist(c.Pos, cp.Pos)
             IN  IF RGeq(RAdd(dist, R(2)), RAdd(c.Radius, cp.Radius))
                 THEN LET force == Div(Mult(Sub(cp.Pos, c.Pos),
                                            RDiv(RMul(RMul(R(1), c.Charge), cp.Charge), RMul(dist, dist))),
                                       dist)
                      IN  [w EXCEPT ![i] = ApplyForce(c, Mult(force, R(-1))),
                                    ![j] = ApplyForce(cp, force)]
                 ELSE w
        ELSE w

RECURSIVE Coulomb(_, _, _, _)
Coulomb(w, i, corpi, k) ==
    IF corpi = <<>> THEN w
    ELSE Coulomb(CoulombPair(w, i, Head(corpi), k), i, Tail(corpi), k)

---------------------------------------------------------------------------
(* Where the arithmetic of a call is exact: every distance the call takes  *)
(* is the root of a square and is not zero, so that Mag, Norm and Div are  *)
(* defined on rationals.                                                   *)

ExactPair(c, cp) ==
    (~c.Immaterial /\ ~cp.Immaterial) =>
        LET d2 == DistSq(c.Pos, cp.Pos) IN d2 # Zero /\ HasRoot(d2)

\* Gravitate and Coulomb leave every Pos alone: the distances are those of w.
ExactForce(w, i, corpi) ==
    \A n \in 1..Len(corpi) : ExactPair(w[i], w[corpi[n]])

\* Collide moves the bodies as it goes: follow the loop.
RECURSIVE ExactCollide(_, _, _)
ExactCollide(w, i, corpi) ==
    IF corpi = <<>> THEN TRUE
    ELSE /\ ExactPair(w[i], w[Head(corpi)])
         /\ ExactCollide(CollidePair(w, i, Head(corpi)), i, Tail(corpi))

---------------------------------------------------------------------------
(* The caller's world: the bodies it owns, and the calls it makes.  hist   *)
(* records each call made, with the world as it was before the call.       *)

Bodies == 1..3

\* The slices a caller passes with focal body i: the other bodies, in any
\* order, one or both of them.
OthersOf(i) ==
    {<<j>> : j \in Bodies \ {i}} \cup
    {<<j, k>> : <<j, k>> \in {p \in (Bodies \ {i}) \X (Bodies \ {i}) : p[1] # p[2]}}

\* A corpus as MakeCorpus returns it, with the caller's setting of Immaterial.
Body(pos, vel, mass, charge, rad, imm) ==
    [MakeCorpus(pos.X, pos.Y, vel.X, vel.Y, R(mass), R(charge), R(rad))
        EXCEPT !.Immaterial = imm]

Call(op, i, corpi, arg) ==
    [op |-> op, c |-> i, others |-> corpi, arg |-> arg, pre |-> world]

CallApplyForce(i, f) ==
    /\ world' = [world EXCEPT ![i] = ApplyForce(world[i], f)]
    /\ hist' = Append(hist, Call("ApplyForce", i, <<>>, <<f.X, f.Y>>))

CallUpdate(i) ==
    /\ world' = [world EXCEPT ![i] = Update(world[i])]
    /\ hist' = Append(hist, Call("Update", i, <<>>, <<>>))

CallBounce(i, width, height) ==
    /\ world' = [world EXCEPT ![i] = Bounce(world[i], width, height)]
    /\ hist' = Append(hist, Call("Bounce", i, <<>>, <<width, height>>))

CallCollide(i, corpi) ==
    /\ ExactCollide(world, i, corpi)
    /\ world' = Collide(world, i, corpi)
    /\ hist' = Append(hist, Call("Collide", i, corpi, <<>>))

CallGravitate(i, corpi, G) ==
    /\ ExactForce(world, i, corpi)
    /\ world' = Gravitate(world, i, corpi, G)
    /\ hist' = Append(hist, Call("Gravitate", i, corpi, <<G>>))

CallCoulomb(i, corpi, k) ==
    /\ ExactForce(world, i, corpi)
    /\ world' = Coulomb(world, i, corpi, k)
    /\ hist' = Append(hist, Call("Coulomb", i, corpi, <<k>>))

---------------------------------------------------------------------------
(* The collision pass: Collide, focal body by focal body. *)

CollideWorlds ==
    { <<Body(V(0, 0), v1, m1, 0, 3, FALSE),
        Body(p2, v2, 1, 0, r2, FALSE),
        Body(V(0, -6), V(0, 1), 2, 0, r3, imm3)>> :
        <<v1, m1, p2, v2, r2, r3, imm3>> \in
            {V(1, 0), V(2, 1)} \X {1, 3} \X {V(3, 4), V(4, 0)} \X
            {V(-1, 0), V(0, 2)} \X {1, 2, 3} \X {1, 4} \X BOOLEAN }

InitCollide == world \in CollideWorlds /\ hist = <<>>

NextCollide ==
    \E i \in Bodies : \E corpi \in OthersOf(i) :
        Len(hist) < MaxSteps /\ CallCollide(i, corpi)

SpecCollide == InitCollide /\ [][NextCollide]_vars

---------------------------------------------------------------------------
(* The integration pass: forces applied by the caller, then Update. *)

IntegrateWorlds ==
    { <<Body(V(0, 0), v1, m1, 0, 1, imm1),
        Body(V(3, 4), V(-1, 2), 2, 0, 1, FALSE),
        Body(V(0, 4), V(0, 0), 1, 0, 1, TRUE)>> :
        <<v1, m1, imm1>> \in {V(1, 1), V(-2, 3)} \X {1, 2, 3} \X BOOLEAN }

Forces == {V(1, 1), V(-2, 3)}

InitIntegrate == world \in IntegrateWorlds /\ hist = <<>>

NextIntegrate ==
    \/ \E i \in Bodies : \E f \in Forces :
           Len(hist) < MaxTicks /\ CallApplyForce(i, f)
    \/ \E i \in Bodies : Len(hist) < MaxTicks /\ CallUpdate(i)

SpecIntegrate == InitIntegrate /\ [][NextIntegrate]_vars

---------------------------------------------------------------------------
(* The force pass: Gravitate and Coulomb, focal body by focal body.  The   *)
(* centres form a 3-4-5 triangle.                                          *)

ForceWorlds ==
    { <<Body(V(0, 0), V(1, 0), m1, q1, 1, FALSE),
        Body(V(3, 4), V(0, 0), 3, q2, r2, FALSE),
        Body(V(0, 4), V(0, -1), 1, 2, r3, imm3)>> :
        <<m1, q1, q2, r2, r3, imm3>> \in
            {1, 2} \X {1, -2} \X {1, -1} \X {1, 3} \X {1, 4} \X BOOLEAN }

GValues == {R(1), R(2)}

KValues == {R(1), R(2)}

InitForce == world \in ForceWorlds /\ hist = <<>>

NextForce ==
    \/ \E i \in Bodies : \E corpi \in OthersOf(i) : \E G \in GValues :
           Len(hist) < MaxOps /\ CallGravitate(i, corpi, G)
    \/ \E i \in Bodies : \E corpi \in OthersOf(i) : \E k \in KValues :
           Len(hist) < MaxOps /\ CallCoulomb(i, corpi, k)

SpecForce == InitForce /\ [][NextForce]_vars

---------------------------------------------------------------------------
(* The boundary pass: Update moves a body, Bounce puts it back in the box. *)

BounceWorlds ==
    { <<Body(p1, v1, 1, 0, r1, FALSE),
        Body(V(3, 4), V(1, 1), 1, 0, 1, FALSE),
        Body(V(7, 1), V(0, -2), 1, 0, 2, TRUE)>> :
        <<p1, v1, r1>> \in
            {V(2, 3), V(5, 7), V(-1, 0), V(3, 2)} \X {V(3, -2), V(-4, 4)} \X {0, 1, 3} }

\* The boxes <<width, height>> a caller passes; <<4, 8>> is narrower than
\* a body of radius 3.
Boxes == {<<R(6), R(6)>>, <<R(4), R(8)>>, <<R(10), R(5)>>}

InitBounce == world \in BounceWorlds /\ hist = <<>>

NextBounce ==
    \/ \E i \in Bodies : \E box \in Boxes :
           Len(hist) < MaxSteps /\ CallBounce(i, box[1], box[2])
    \/ \E i \in Bodies : Len(hist) < MaxSteps /\ CallUpdate(i)

SpecBounce == InitBounce /\ [][NextBounce]_vars

---------------------------------------------------------------------------
(* Every operation, on worlds with any of the bodies immaterial. *)

Worlds ==
    { <<Body(V(0, 0), V(1, 0), 1, 1, 3, imm1),
        Body(p2, V(-1, 2), 2, -1, r2, imm2),
        Body(V(0, -6), V(0, 1), 1, 2, 4, imm3)>> :
        <<p2, r2, imm1, imm2, imm3>> \in
            {V(3, 4), V(4, 0)} \X {1, 3} \X BOOLEAN \X BOOLEAN \X BOOLEAN }

Init == world \in Worlds /\ hist = <<>>

Next ==
    \/ \E i \in Bodies : Len(hist) < MaxOps /\ CallApplyForce(i, V(1, 1))
    \/ \E i \in Bodies : Len(hist) < MaxOps /\ CallUpdate(i)
    \/ \E i \in Bodies : Len(hist) < MaxOps /\ CallBounce(i, R(10), R(5))
    \/ \E i \in Bodies : \E corpi \in OthersOf(i) :
           Len(hist) < MaxOps /\ CallCollide(i, corpi)
    \/ \E i \in Bodies : \E corpi \in OthersOf(i) :
           Len(hist) < MaxOps /\ CallGravitate(i, corpi, R(2))
    \/ \E i \in Bodies : \E corpi \in OthersOf(i) :
           Len(hist) < MaxOps /\ CallCoulomb(i, corpi, R(2))

Spec == Init /\ [][Next]_vars

---------------------------------------------------------------------------
(* What the claims speak of. *)

Last == hist[Len(hist)]

Called(op) == hist # <<>> /\ Last.op = op

Sq(a) == RMul(a, a)

Cross(a, b) == RSub(RMul(a.X, b.Y), RMul(a.Y, b.X))

Material(w, a, b) == ~w[a].Immaterial /\ ~w[b].Immaterial

\* Two material bodies with distinct centres no further apart than the sum
\* of their radii.
Intersecting(w, a, b) ==
    /\ Material(w, a, b)
    /\ w[a].Pos # w[b].Pos
    /\ RLeq(DistSq(w[a].Pos, w[b].Pos), Sq(RAdd(w[a].Radius, w[b].Radius)))

\* The last call was c.Collide([cp]) on an intersecting pair.
CollidedPair ==
    /\ Called("Collide")
    /\ Len(Last.others) = 1
    /\ Intersecting(Last.pre, Last.c, Last.others[1])

Momentum(w, a, b) == Add(Mult(w[a].Vel, w[a].Mass), Mult(w[b].Vel, w[b].Mass))

\* C1: c.Collide([cp]) on two intersecting material bodies with distinct
\* centres leaves the total momentum c.Mass*c.Vel + cp.Mass*cp.Vel as it was.
C1_MomentumConserved ==
    CollidedPair =>
        Momentum(world, Last.c, Last.others[1]) = Momentum(Last.pre, Last.c, Last.others[1])

C1_Witness ==
    /\ CollidedPair
    /\ world[Last.c].Vel # Last.pre[Last.c].Vel
    /\ world[Last.others[1]].Vel # Last.pre[Last.others[1]].Vel
    /\ Last.pre[Last.c].Mass # Last.pre[Last.others[1]].Mass

\* The two-body elastic formula for the body at x with velocity v, against
\* the body at xo with velocity vo and mass mo; mt is the sum of the masses.
Elastic(v, vo, x, xo, mo, mt) ==
    Sub(v, Mult(Sub(x, xo),
                RMul(RDiv(RMul(R(2), mo), mt),
                     RDiv(Dot(Sub(v, vo), Sub(x, xo)), DistSq(x, xo)))))

\* C3: in one pair resolution both new velocities are the elastic formula
\* applied to the velocities the two bodies had before the resolution (at the
\* centres as depenetration left them): neither reads the other's new velocity.
C3_BothFromPreState ==
    CollidedPair =>
        LET a == Last.c
            b == Last.others[1]
            v1 == Last.pre[a].Vel
            v2 == Last.pre[b].Vel
            mt == RAdd(world[a].Mass, world[b].Mass)
        IN  /\ world[a].Vel = Elastic(v1, v2, world[a].Pos, world[b].Pos, world[b].Mass, mt)
            /\ world[b].Vel = Elastic(v2, v1, world[b].Pos, world[a].Pos, world[a].Mass, mt)

C3_Witness ==
    /\ CollidedPair
    /\ world[Last.c].Vel # Last.pre[Last.c].Vel
    /\ world[Last.others[1]].Vel # Last.pre[Last.others[1]].Vel
    /\ world[Last.c].Pos # Last.pre[Last.c].Pos

\* C8: c.Collide([cp]) on an intersecting pair moves each centre by
\* (r1+r2-dist)/2, in opposite directions along the line of centres, c away
\* from cp; afterwards the centres are r1+r2 apart and their midpoint is
\* where it was.
C8_Depenetration ==
    CollidedPair =>
        LET a == Last.c
            b == Last.others[1]
            pre == Last.pre
            rr == RAdd(pre[a].Radius, pre[b].Radius)
            axis == Sub(pre[a].Pos, pre[b].Pos)
            da == Sub(world[a].Pos, pre[a].Pos)
            db == Sub(world[b].Pos, pre[b].Pos)
            half == RDiv(RSub(rr, RSqrt(MagSq(axis))), R(2))
        IN  /\ MagSq(da) = Sq(half)
            /\ db = Mult(da, R(-1))
            /\ Cross(da, axis) = Zero
            /\ RGeq(Dot(da, axis), Zero)
            /\ DistSq(world[a].Pos, world[b].Pos) = Sq(rr)
            /\ Add(world[a].Pos, world[b].Pos) = Add(pre[a].Pos, pre[b].Pos)

C8_Witness ==
    /\ CollidedPair
    /\ world[Last.c].Pos # Last.pre[Last.c].Pos
    /\ world[Last.c].Pos.Y # Last.pre[Last.c].Pos.Y

\* The last two calls were a.Collide([b]) on an intersecting pair, then
\* b.Collide([a]).
CollidedTwice ==
    /\ Len(hist) >= 2
    /\ LET first == hist[Len(hist) - 1]
       IN  /\ first.op = "Collide" /\ Last.op = "Collide"
           /\ Len(first.others) = 1 /\ Len(Last.others) = 1
           /\ Last.c = first.others[1] /\ Last.others[1] = first.c
           /\ Intersecting(first.pre, first.c, first.others[1])

\* C10: a.Collide([b]) followed at once by b.Collide([a]) leaves a.Vel and
\* b.Vel as they were before the first call.
C10_SecondCallUndoes ==
    CollidedTwice =>
        LET first == hist[Len(hist) - 1]
        IN  /\ world[first.c].Vel = first.pre[first.c].Vel
            /\ world[Last.c].Vel = first.pre[Last.c].Vel

C10_Witness ==
    /\ CollidedTwice
    /\ Last.pre[Last.c].Vel # hist[Len(hist) - 1].pre[Last.c].Vel
    /\ Last.pre[Last.others[1]].Vel # hist[Len(hist) - 1].pre[Last.others[1]].Vel

---------------------------------------------------------------------------
(* Integration. *)

\* The sum of the forces applied to body i by the calls hist[lo..hi].
RECURSIVE ForceSum(_, _, _)
ForceSum(i, lo, hi) ==
    IF lo > hi THEN Vec(Zero, Zero)
    ELSE LET e == hist[hi]
             rest == ForceSum(i, lo, hi - 1)
         IN  IF e.c = i /\ e.op = "ApplyForce"
             THEN Add(rest, Vec(e.arg[1], e.arg[2]))
             ELSE rest

\* From call lo on, body i has had forces applied and nothing else, until
\* the last call, which is its Update; its Acc was zero before call lo.
ForcesThenUpdate(i, lo) ==
    /\ Called("Update") /\ Last.c = i
    /\ ~hist[lo].pre[i].Immaterial
    /\ hist[lo].pre[i].Acc = Vec(Zero, Zero)
    /\ \A m \in lo..(Len(hist) - 1) : hist[m].c = i => hist[m].op = "ApplyForce"

\* Every call on body i so far was an Update.
OnlyUpdates(i) == \A m \in 1..Len(hist) : hist[m].c = i => hist[m].op = "Update"

UpdatesOf(i) == Cardinality({m \in 1..Len(hist) : hist[m].c = i})

\* C2: for a material corpus whose Acc is zero, ApplyForce(f1), ...,
\* ApplyForce(fn) and then one Update give Vel' = Vel + (f1+...+fn)/Mass,
\* Pos' = Pos + Vel', Acc' = 0, the other fields unchanged; and n Updates
\* with no force applied give Pos = Pos0 + n*Vel with Vel unchanged.
C2_Integration ==
    \A i \in Bodies :
        /\ \A lo \in 1..Len(hist) :
              ForcesThenUpdate(i, lo) =>
                  LET c0 == hist[lo].pre[i]
                      vel == Add(c0.Vel, Div(ForceSum(i, lo, Len(hist)), c0.Mass))
                  IN  world[i] = [c0 EXCEPT !.Vel = vel, !.Pos = Add(c0.Pos, vel)]
        /\ (hist # <<>> /\ OnlyUpdates(i) /\ ~hist[1].pre[i].Immaterial
              /\ hist[1].pre[i].Acc = Vec(Zero, Zero)) =>
              LET c0 == hist[1].pre[i]
              IN  world[i] = [c0 EXCEPT !.Pos = Add(c0.Pos, Mult(c0.Vel, R(UpdatesOf(i))))]

C2_Witness ==
    /\ Len(hist) = 3
    /\ ForcesThenUpdate(Last.c, 1)
    /\ hist[1].c = Last.c /\ hist[2].c = Last.c
    /\ hist[1].arg # hist[2].arg
    /\ world[Last.c].Mass # R(1)

---------------------------------------------------------------------------
(* Bounce. *)

BouncedX(c, width) == RGt(c.Pos.X, RSub(width, c.Radius)) \/ RLt(c.Pos.X, c.Radius)

BouncedY(c, height) == RGt(c.Pos.Y, RSub(height, c.Radius)) \/ RLt(c.Pos.Y, c.Radius)

InBoxX(c, width) == RLeq(c.Radius, c.Pos.X) /\ RLeq(c.Pos.X, RSub(width, c.Radius))

InBoxY(c, height) == RLeq(c.Radius, c.Pos.Y) /\ RLeq(c.Pos.Y, RSub(height, c.Radius))

\* C4 as claimed: after Bounce(width, height), whatever the width, the
\* height and the Radius >= 0, Radius <= Pos.X <= width - Radius and
\* Radius <= Pos.Y <= height - Radius.
C4_InBoxAlways ==
    (Called("Bounce") /\ RGeq(world[Last.c].Radius, Zero)) =>
        InBoxX(world[Last.c], Last.arg[1]) /\ InBoxY(world[Last.c], Last.arg[2])

\* C4 as amended: after Bounce(width, height) with Radius >= 0, the
\* position lies in the box on every axis on which the box is at least as
\* wide as the body: Radius <= Pos.X <= width - Radius if width >= 2*Radius,
\* and Radius <= Pos.Y <= height - Radius if height >= 2*Radius.
C4_InBoxWhenItFits ==
    (Called("Bounce") /\ RGeq(world[Last.c].Radius, Zero)) =>
        LET c == world[Last.c]
            twice == RMul(R(2), c.Radius)
        IN  /\ RGeq(Last.arg[1], twice) => InBoxX(c, Last.arg[1])
            /\ RGeq(Last.arg[2], twice) => InBoxY(c, Last.arg[2])

C4_Witness ==
    /\ Called("Bounce")
    /\ RGt(world[Last.c].Radius, Zero)
    /\ RGeq(Last.arg[1], RMul(R(2), world[Last.c].Radius))
    /\ RGeq(Last.arg[2], RMul(R(2), world[Last.c].Radius))
    /\ ~InBoxX(Last.pre[Last.c], Last.arg[1])
    /\ ~InBoxY(Last.pre[Last.c], Last.arg[2])

\* C9 as claimed: Bounce negates Vel.X if Pos.X > width - Radius or
\* Pos.X < Radius held before the call, and leaves it otherwise; likewise
\* Vel.Y with Pos.Y and height.
C9_FlipWhenOutside ==
    Called("Bounce") =>
        LET c0 == Last.pre[Last.c]
            c == world[Last.c]
        IN  /\ c.Vel.X = IF BouncedX(c0, Last.arg[1]) THEN RNeg(c0.Vel.X) ELSE c0.Vel.X
            /\ c.Vel.Y = IF BouncedY(c0, Last.arg[2]) THEN RNeg(c0.Vel.Y) ELSE c0.Vel.Y

\* C9 as amended: Bounce negates Vel.X if exactly one of Pos.X > width -
\* Radius and Pos.X < Radius held before the call, and leaves it if neither
\* or both did (both: the component is negated twice); likewise Vel.Y; the
\* axes are decided independently.
C9_FlipWhenOutsideOnce ==
    Called("Bounce") =>
        LET c0 == Last.pre[Last.c]
            c == world[Last.c]
            hiX == RGt(c0.Pos.X, RSub(Last.arg[1], c0.Radius))
            loX == RLt(c0.Pos.X, c0.Radius)
            hiY == RGt(c0.Pos.Y, RSub(Last.arg[2], c0.Radius))
            loY == RLt(c0.Pos.Y, c0.Radius)
        IN  /\ c.Vel.X = IF hiX # loX THEN RNeg(c0.Vel.X) ELSE c0.Vel.X
            /\ c.Vel.Y = IF hiY # loY THEN RNeg(c0.Vel.Y) ELSE c0.Vel.Y

C9_Witness ==
    /\ Called("Bounce")
    /\ world[Last.c].Vel.X = RNeg(Last.pre[Last.c].Vel.X)
    /\ world[Last.c].Vel.Y = RNeg(Last.pre[Last.c].Vel.Y)
    /\ world[Last.c].Vel.X # Zero /\ world[Last.c].Vel.Y # Zero

---------------------------------------------------------------------------
(* Immaterial bodies. *)

\* The elements of corpi that are material in w, in order.
RECURSIVE MaterialOnly(_, _)
MaterialOnly(w, corpi) ==
    IF corpi = <<>> THEN <<>>
    ELSE IF w[Head(corpi)].Immaterial THEN MaterialOnly(w, Tail(corpi))
         ELSE <<Head(corpi)>> \o MaterialOnly(w, Tail(corpi))

\* What the call e leaves of e.pre when its slice is corpi.
CallOn(e, corpi) ==
    CASE e.op = "Collide" -> Collide(e.pre, e.c, corpi)
      [] e.op = "Gravitate" -> Gravitate(e.pre, e.c, corpi, e.arg[1])
      [] e.op = "Coulomb" -> Coulomb(e.pre, e.c, corpi, e.arg[1])

Pairwise(e) == e.op \in {"Collide", "Gravitate", "Coulomb"}

\* C5: Update changes no field of an immaterial corpus; a call of Collide,
\* Gravitate or Coulomb changes no field of an immaterial body, changes
\* nothing at all when its focal body is immaterial, and leaves the other
\* bodies as the same call without the immaterial elements of the slice
\* would (nothing at all when every element is immaterial).
C5_ImmaterialExempt ==
    hist # <<>> =>
        LET e == Last
            pre == Last.pre
        IN  /\ (e.op = "Update" /\ pre[e.c].Immaterial) => world = pre
            /\ Pairwise(e) =>
                  /\ \A b \in Bodies : pre[b].Immaterial => world[b] = pre[b]
                  /\ pre[e.c].Immaterial => world = pre
                  /\ (\A n \in 1..Len(e.others) : pre[e.others[n]].Immaterial) => world = pre
                  /\ world = CallOn(e, MaterialOnly(pre, e.others))

\* An immaterial body first in the slice of a Collide that goes on to
\* resolve the focal body against a material one.
C5_Witness ==
    /\ Called("Collide")
    /\ Len(Last.others) = 2
    /\ ~Last.pre[Last.c].Immaterial
    /\ Last.pre[Last.others[1]].Immaterial
    /\ ~Last.pre[Last.others[2]].Immaterial
    /\ RLeq(DistSq(Last.pre[Last.c].Pos, Last.pre[Last.others[1]].Pos),
            Sq(RAdd(Last.pre[Last.c].Radius, Last.pre[Last.others[1]].Radius)))
    /\ world[Last.c] # Last.pre[Last.c]

---------------------------------------------------------------------------
(* Gravitate and Coulomb. *)

\* The eligibility rule of both: dist + 2 >= r1 + r2.
Eligible(w, a, b) ==
    RGeq(RAdd(RSqrt(DistSq(w[a].Pos, w[b].Pos)), R(2)), RAdd(w[a].Radius, w[b].Radius))

\* Mass times the change of Acc of body b over the last call: the force the
\* call applied to it.
ForceOn(b) == Mult(Sub(world[b].Acc, Last.pre[b].Acc), Last.pre[b].Mass)

RECURSIVE ForceOnAll(_)
ForceOnAll(corpi) ==
    IF corpi = <<>> THEN Vec(Zero, Zero)
    ELSE Add(ForceOn(Head(corpi)), ForceOnAll(Tail(corpi)))

\* The last call was c.Coulomb([cp], k) on an eligible pair of material
\* bodies with distinct centres.
CoulombedPair ==
    /\ Called("Coulomb")
    /\ Len(Last.others) = 1
    /\ Material(Last.pre, Last.c, Last.others[1])
    /\ Last.pre[Last.c].Pos # Last.pre[Last.others[1]].Pos
    /\ Eligible(Last.pre, Last.c, Last.others[1])

\* C6 as claimed: Coulomb(others, k) applies to each body of an eligible
\* pair a force of magnitude k*|q1*q2|/r^2 along the line of centres, equal
\* and opposite, pushing like charges apart and pulling unlike charges
\* together.
C6_CoulombLaw ==
    CoulombedPair =>
        LET a == Last.c
            b == Last.others[1]
            pre == Last.pre
            qq == RMul(pre[a].Charge, pre[b].Charge)
            away == Sub(pre[a].Pos, pre[b].Pos)
            F == ForceOn(a)
        IN  /\ MagSq(F) = Sq(RDiv(RMul(Last.arg[1], qq), MagSq(away)))
            /\ ForceOn(b) = Mult(F, R(-1))
            /\ Cross(F, away) = Zero
            /\ RGt(qq, Zero) => RGt(Dot(F, away), Zero)
            /\ RLt(qq, Zero) => RLt(Dot(F, away), Zero)

\* C7: Gravitate never changes a Pos or a Vel, nor the Acc of a body that
\* is neither the focal body nor in the slice.  With a material focal body
\* c, a material cp of the slice at distance d > 0 receives a force of
\* magnitude G*m1*m2/d^2 pointing at c if d + 2 >= c.Radius + cp.Radius, and
\* none otherwise, and c receives the opposite of all of them:
\* c.Mass*dAcc(c) + sum of cp.Mass*dAcc(cp) = 0.
C7_Gravitation ==
    Called("Gravitate") =>
        LET a == Last.c
            pre == Last.pre
            G == Last.arg[1]
        IN  /\ \A b \in Bodies : world[b].Pos = pre[b].Pos /\ world[b].Vel = pre[b].Vel
            /\ \A b \in Bodies :
                  (b # a /\ \A n \in 1..Len(Last.others) : Last.others[n] # b) =>
                      world[b] = pre[b]
            /\ ~pre[a].Immaterial =>
                  /\ Add(ForceOn(a), ForceOnAll(Last.others)) = Vec(Zero, Zero)
                  /\ \A n \in 1..Len(Last.others) :
                        LET b == Last.others[n]
                            toC == Sub(pre[a].Pos, pre[b].Pos)
                            F == ForceOn(b)
                        IN  (~pre[b].Immaterial /\ pre[a].Pos # pre[b].Pos) =>
                                IF Eligible(pre, a, b)
                                THEN /\ MagSq(F) = Sq(RDiv(RMul(RMul(G, pre[a].Mass), pre[b].Mass),
                                                           MagSq(toC)))
                                     /\ Cross(F, toC) = Zero
                                     /\ RGt(Dot(F, toC), Zero)
                                ELSE F = Vec(Zero, Zero)

\* Gravitate on a slice of two material bodies, one eligible and one not.
C7_Witness ==
    /\ Called("Gravitate")
    /\ Len(Last.others) = 2
    /\ ~Last.pre[Last.c].Immaterial
    /\ Material(Last.pre, Last.others[1], Last.others[2])
    /\ Eligible(Last.pre, Last.c, Last.others[1])
    /\ ForceOn(Last.others[1]) # Vec(Zero, Zero)
    /\ ~Eligible(Last.pre, Last.c, Last.others[2])

============================================================================
